---- MODULE Spec2Model ----
(***************************************************************************)
(* Model of the paginated collection-fetch hook                            *)
(* src/src/lib/hooks/useFirestoreCollection.ts (useFirestoreCollection).   *)
(*                                                                         *)
(* The hook keeps six pieces of React state (data, loading, loadingMore,   *)
(* error, lastDoc, hasMore) and exposes two asynchronous operations,       *)
(* reload and loadMore.  Each of them runs synchronously up to its         *)
(* `await getDocs(q)` and resumes when the store answers, so every         *)
(* operation is two steps of the state machine: the call (which issues     *)
(* the request) and the settlement (success or failure of the request).    *)
(* loadMore is re-created by useCallback whenever lastDoc, hasMore or      *)
(* loadingMore change (line 135), so a call reads the current state.       *)
(* The values a continuation closes over (the cursor it started after and  *)
(* the page size) are carried in the request.                              *)
(***************************************************************************)
EXTENDS Integers, Sequences, FiniteSets

\* ---- bounds of the model ------------------------------------------------
MaxN == 4          \* the store holds 0..MaxN records
MaxPageSize == 2   \* page sizes 1..MaxPageSize
MaxReq == 5        \* store requests issued in one behaviour
MaxCalls == 4      \* loadMore calls between two reload calls

NoDoc == 0         \* lastDoc === null

VARIABLES
  store,        \* the collection in the document store: sequence of record ids
  pageSize,     \* options.pageSize
  data,         \* useState<T[]>([])
  loading,      \* useState(true)
  loadingMore,  \* useState(false)
  error,        \* useState<string | null>(null)
  lastDoc,      \* useState<QueryDocumentSnapshot | null>(null)
  hasMore,      \* useState(true)
  pending,      \* getDocs promises that have not settled yet
  mounted,      \* the mount effect (lines 138-142) has run
  nextReq,      \* number of store requests issued so far
  op,           \* observer: the handler step that ran last
  lastFetch,    \* observer: <<length returned, page size asked>> of the most
                \* recent fetch that returned, <<>> before any has
  k,            \* observer: loadMore calls since the last reload call
  clean         \* observer: since the last reload call no fetch overlapped or failed

vars == <<store, pageSize, data, loading, loadingMore, error, lastDoc, hasMore,
          pending, mounted, nextReq, op, lastFetch, k, clean>>

\* State of the pages that own a hook instance (src/src/routes/categories.tsx,
\* src/src/routes/catalog.tsx).
VARIABLES
  categories,          \* data of the "categories" hook instance, as records
  products,            \* data of the "products" hook instance, as records
  searchQuery,         \* useState("") of CategoryPage / ProductPage
  selectedCategoryId,  \* CatalogPage: useState<string | null>(null)
  currentPage,         \* CatalogPage: useState(1)
  entity,              \* which page owns the hook: "category" or "product"
  form,                \* currentCategory / currentProduct
  toDelete,            \* categoryToDelete / productToDelete
  isLoading,           \* useState(false) of the page
  handlers,            \* CRUD handler invocations suspended at an await
  toasts,              \* notifications raised through sonner's toast
  nWrites              \* number of store writes issued so far

pageVars == <<categories, products, searchQuery, selectedCategoryId, currentPage,
              entity, form, toDelete, isLoading, handlers, toasts, nWrites>>

allVars == <<vars, pageVars>>

\* ---- the document store ---------------------------------------------------
Min(a, b) == IF a < b THEN a ELSE b

\* records 1..n in the store's default order
Records(n) == [i \in 1..n |-> i]

\* position of a document in the collection (0 when it is not there)
IndexOf(s, d) == IF \E i \in 1..Len(s) : s[i] = d
                 THEN CHOOSE i \in 1..Len(s) : s[i] = d
                 ELSE 0

\* FetchPage with startAt in place of startAfter: the cursor document is
\* returned again
FetchPage_StartAt(s, after, size) ==
  LET from == IF after = NoDoc THEN 1 ELSE IndexOf(s, after)
      to == Min(Len(s), from + size - 1)
  IN  SubSeq(s, from, to)

\* getDocs(query(collectionRef, [startAfter(after),] limit(size)))
FetchPage(s, after, size) ==
  LET from == IF after = NoDoc THEN 1 ELSE IndexOf(s, after) + 1
      to == Min(Len(s), from + size - 1)
  IN  SubSeq(s, from, to)

\* processSnapshot losing the last document of the page
LastVisibleDoc_Null(docs) == NoDoc

\* processSnapshot(...).lastVisibleDoc
LastVisibleDoc(docs) == IF Len(docs) = 0 THEN NoDoc ELSE docs[Len(docs)]

\* FullPage testing for a non-empty page instead of a full one
FullPage_NonEmpty(docs, size) == Len(docs) > 0

\* setHasMore(processedData.length === pageSize)
FullPage(docs, size) == Len(docs) = size

\* loadMore's early return without its corrective setHasMore(false)
CorrectedHasMore_Skip(doc, more) == more

\* lines 103-106: if (!lastDoc && hasMore) setHasMore(false)
CorrectedHasMore(doc, more) == IF doc = NoDoc /\ more THEN FALSE ELSE more

Init ==
  /\ store \in {Records(n) : n \in 0..MaxN}
  /\ pageSize \in 1..MaxPageSize
  /\ data = <<>>
  /\ loading = TRUE
  /\ loadingMore = FALSE
  /\ error = "null"
  /\ lastDoc = NoDoc
  /\ hasMore = TRUE
  /\ pending = {}
  /\ mounted = FALSE
  /\ nextReq = 0
  /\ op = "init"
  /\ lastFetch = <<>>
  /\ k = 0
  /\ clean = FALSE

\* ---- reload: lines 71-96 --------------------------------------------------
\* the part of reload before `await getDocs(q)`
ReloadCall ==
  /\ nextReq < MaxReq
  /\ loading' = TRUE
  /\ error' = "null"
  /\ hasMore' = TRUE
  /\ lastDoc' = NoDoc
  /\ pending' = pending \cup
        {[id |-> nextReq + 1, kind |-> "first", after |-> NoDoc, size |-> pageSize]}
  /\ nextReq' = nextReq + 1
  /\ op' = "reload"
  /\ k' = 0
  /\ clean' = (pending = {})
  /\ UNCHANGED <<store, pageSize, data, loadingMore, lastFetch>>

\* useEffect(() => { reload(); }, [reload]) on mount
MountEffect ==
  /\ ~mounted
  /\ mounted' = TRUE
  /\ ReloadCall

\* reload() called by the owner of the hook (the CRUD handlers call it)
Reload ==
  /\ mounted
  /\ UNCHANGED mounted
  /\ ReloadCall

\* ReloadSuccess appending the page to the previous data
ReloadSuccess_Append(r) ==
  /\ r \in pending /\ r.kind = "first"
  /\ LET processedData == FetchPage(store, r.after, r.size)
     IN  /\ data' = data \o processedData
         /\ lastDoc' = LastVisibleDoc(processedData)
         /\ hasMore' = FullPage(processedData, r.size)
         /\ lastFetch' = <<Len(processedData), r.size>>
  /\ loading' = FALSE
  /\ pending' = pending \ {r}
  /\ op' = "reloadOk"
  /\ UNCHANGED <<store, pageSize, loadingMore, error, mounted, nextReq, k, clean>>

\* try-branch after the await, then finally
ReloadSuccess(r) ==
  /\ r \in pending /\ r.kind = "first"
  /\ LET processedData == FetchPage(store, r.after, r.size)
     IN  /\ data' = processedData
         /\ lastDoc' = LastVisibleDoc(processedData)
         /\ hasMore' = FullPage(processedData, r.size)
         /\ lastFetch' = <<Len(processedData), r.size>>
  /\ loading' = FALSE
  /\ pending' = pending \ {r}
  /\ op' = "reloadOk"
  /\ UNCHANGED <<store, pageSize, loadingMore, error, mounted, nextReq, k, clean>>

\* ReloadFail without the finally block: loading is not released
ReloadFail_NoFinally(r) ==
  /\ r \in pending /\ r.kind = "first"
  /\ error' = "Failed to load data"
  /\ data' = <<>>
  /\ hasMore' = FALSE
  /\ pending' = pending \ {r}
  /\ op' = "reloadFail"
  /\ clean' = FALSE
  /\ UNCHANGED <<store, pageSize, loading, loadingMore, lastDoc, mounted, nextReq,
                 lastFetch, k>>

\* catch-branch, then finally
ReloadFail(r) ==
  /\ r \in pending /\ r.kind = "first"
  /\ error' = "Failed to load data"
  /\ data' = <<>>
  /\ hasMore' = FALSE
  /\ loading' = FALSE
  /\ pending' = pending \ {r}
  /\ op' = "reloadFail"
  /\ clean' = FALSE
  /\ UNCHANGED <<store, pageSize, loadingMore, lastDoc, mounted, nextReq,
                 lastFetch, k>>

\* ---- loadMore: lines 100-135 ----------------------------------------------
\* the part of loadMore before `await getDocs(q)`, early return included
LoadMore ==
  /\ mounted
  /\ k < MaxCalls
  /\ k' = k + 1
  /\ IF loadingMore \/ ~hasMore \/ lastDoc = NoDoc
     THEN /\ hasMore' = CorrectedHasMore(lastDoc, hasMore)
          /\ op' = "loadMoreReturn"
          /\ clean' = (clean /\ pending = {})
          /\ UNCHANGED <<loadingMore, error, pending, nextReq>>
     ELSE /\ nextReq < MaxReq
          /\ op' = "loadMore"
          /\ loadingMore' = TRUE
          /\ error' = "null"
          /\ pending' = pending \cup
                {[id |-> nextReq + 1, kind |-> "next", after |-> lastDoc,
                  size |-> pageSize]}
          /\ nextReq' = nextReq + 1
          /\ clean' = (clean /\ pending = {})
          /\ UNCHANGED hasMore
  /\ UNCHANGED <<store, pageSize, data, loading, lastDoc, mounted, lastFetch>>

\* LoadMoreSuccess without the test for an empty page
LoadMoreSuccess_NoEmptyCheck(r) ==
  /\ r \in pending /\ r.kind = "next"
  /\ LET processedData == FetchPage(store, r.after, r.size)
     IN  /\ data' = data \o processedData
         /\ lastDoc' = LastVisibleDoc(processedData)
         /\ hasMore' = FullPage(processedData, r.size)
         /\ lastFetch' = <<Len(processedData), r.size>>
  /\ loadingMore' = FALSE
  /\ pending' = pending \ {r}
  /\ op' = "moreOk"
  /\ UNCHANGED <<store, pageSize, loading, error, mounted, nextReq, k, clean>>

\* try-branch after the await, then finally
LoadMoreSuccess(r) ==
  /\ r \in pending /\ r.kind = "next"
  /\ LET processedData == FetchPage(store, r.after, r.size)
     IN  /\ IF Len(processedData) > 0
            THEN /\ data' = data \o processedData
                 /\ lastDoc' = LastVisibleDoc(processedData)
                 /\ hasMore' = FullPage(processedData, r.size)
            ELSE /\ hasMore' = FALSE
                 /\ UNCHANGED <<data, lastDoc>>
         /\ lastFetch' = <<Len(processedData), r.size>>
  /\ loadingMore' = FALSE
  /\ pending' = pending \ {r}
  /\ op' = "moreOk"
  /\ UNCHANGED <<store, pageSize, loading, error, mounted, nextReq, k, clean>>

\* LoadMoreFail clearing the data the way reload's catch-branch does
LoadMoreFail_Clear(r) ==
  /\ r \in pending /\ r.kind = "next"
  /\ error' = "Failed to load more data"
  /\ data' = <<>>
  /\ hasMore' = FALSE
  /\ loadingMore' = FALSE
  /\ pending' = pending \ {r}
  /\ op' = "moreFail"
  /\ clean' = FALSE
  /\ UNCHANGED <<store, pageSize, loading, lastDoc, mounted,
                 nextReq, lastFetch, k>>

\* catch-branch, then finally
LoadMoreFail(r) ==
  /\ r \in pending /\ r.kind = "next"
  /\ error' = "Failed to load more data"
  /\ loadingMore' = FALSE
  /\ pending' = pending \ {r}
  /\ op' = "moreFail"
  /\ clean' = FALSE
  /\ UNCHANGED <<store, pageSize, data, loading, lastDoc, hasMore, mounted,
                 nextReq, lastFetch, k>>

\* the store answers one outstanding request
Settle ==
  \E r \in pending :
    \/ ReloadSuccess(r)
    \/ ReloadFail(r)
    \/ LoadMoreSuccess(r)
    \/ LoadMoreFail(r)

Next ==
  \/ MountEffect
  \/ Reload
  \/ LoadMore
  \/ \E r \in pending : ReloadSuccess(r)
  \/ \E r \in pending : ReloadFail(r)
  \/ \E r \in pending : LoadMoreSuccess(r)
  \/ \E r \in pending : LoadMoreFail(r)

\* ---- the pages' state while only the hook is exercised ----------------------
NoCategory == 0    \* selectedCategoryId === null
NoTarget == 0      \* categoryToDelete / productToDelete === null

\* initialProductState / the initial currentCategory, reduced to what the
\* handlers read: id "" (no target), name "", categoryId "" and price 0
BlankForm == [id |-> NoTarget, name |-> <<>>, categoryId |-> NoCategory, price |-> 0]

PageIdle ==
  /\ categories = <<>>
  /\ products = <<>>
  /\ searchQuery = <<>>
  /\ selectedCategoryId = NoCategory
  /\ currentPage = 1
  /\ entity = "category"
  /\ form = BlankForm
  /\ toDelete = NoTarget
  /\ isLoading = FALSE
  /\ handlers = {}
  /\ toasts = <<>>
  /\ nWrites = 0

\* the hook alone, driven by an arbitrary owner
HookInit == Init /\ PageIdle

HookNext == Next /\ UNCHANGED pageVars

Spec == HookInit /\ [][HookNext]_allVars

\* the effect runs after the first commit and the store answers every request
LiveSpec ==
  /\ Spec
  /\ WF_allVars(MountEffect /\ UNCHANGED pageVars)
  /\ WF_allVars(Settle /\ UNCHANGED pageVars)

\* ---- claims ----------------------------------------------------------------
N == Len(store)

Max(a, b) == IF a > b THEN a ELSE b

\* length of the j-th page (j = 0 is the first page) of a store of N records
PageLen(j) == Min(pageSize, Max(0, N - j * pageSize))

\* C1: against an unchanging store, once reload has completed and k loadMore
\* calls have followed, each issued with nothing pending and each settled
\* successfully, data is the first min(N, (k+1)*pageSize) records of the store
\* in store order, and hasMore is false exactly when one of the fetches so far
\* returned fewer than pageSize records.
C1_SerialPaging ==
  (clean /\ pending = {}) =>
     /\ data = SubSeq(store, 1, Min(N, (k + 1) * pageSize))
     /\ hasMore = (\A j \in 0..k : PageLen(j) = pageSize)

C1_Witness ==
  /\ clean /\ pending = {}
  /\ pageSize = 2 /\ N = 3 /\ k = 2
  /\ data = <<1, 2, 3>> /\ ~hasMore

\* C2: at most one store page request is outstanding at any time.
C2_OneOutstanding == Cardinality(pending) <= 1

\* C3 (as claimed): in every state hasMore is true iff the most recent fetch
\* returned exactly pageSize records or no fetch has returned yet.
C3_HasMoreIffLastFull ==
  hasMore <=> (lastFetch = <<>> \/ lastFetch[1] = pageSize)

\* C3 (amended): in every state reached by the successful settlement of a
\* fetch, hasMore is true iff that fetch returned exactly the page size it
\* asked for.
C3_HasMoreAfterFetch ==
  op \in {"reloadOk", "moreOk"} => (hasMore <=> lastFetch[1] = lastFetch[2])

C3_Witness ==
  /\ op = "moreOk" /\ lastFetch = <<1, 2>> /\ ~hasMore /\ Len(data) = 3

\* C4: a loadMore call made while loadingMore is true or hasMore is false
\* issues no store request and leaves data, lastDoc and hasMore unchanged.
C4_NoOp ==
  [][(op' \in {"loadMore", "loadMoreReturn"} /\ k' = k + 1
        /\ (loadingMore \/ ~hasMore))
     => /\ pending' = pending /\ nextReq' = nextReq
        /\ UNCHANGED <<data, lastDoc, hasMore>>]_vars

\* C5: a loadMore call made while lastDoc is null and hasMore is true sets
\* hasMore to false, issues no store request and leaves data and lastDoc
\* unchanged.
C5_Corrective ==
  [][(op' \in {"loadMore", "loadMoreReturn"} /\ k' = k + 1
        /\ lastDoc = NoDoc /\ hasMore)
     => /\ hasMore' = FALSE
        /\ pending' = pending /\ nextReq' = nextReq
        /\ UNCHANGED <<data, lastDoc>>]_vars

C5_Witness ==
  /\ op = "loadMoreReturn" /\ k = 1 /\ nextReq = 1
  /\ loading /\ lastDoc = NoDoc /\ ~hasMore /\ data = <<>>

\* C6: the state reached when a reload's first-page fetch succeeds has data
\* equal to exactly the returned records, lastDoc the last of them (null if
\* none) and hasMore = (returned length = page size).
C6_ReloadReplaces ==
  op = "reloadOk" =>
     /\ data = SubSeq(store, 1, Min(N, lastFetch[2]))
     /\ Len(data) = lastFetch[1]
     /\ lastDoc = (IF data = <<>> THEN NoDoc ELSE data[Len(data)])
     /\ hasMore = (Len(data) = lastFetch[2])

C6_Witness ==
  /\ op = "reloadOk" /\ nextReq >= 3 /\ pending = {}
  /\ pageSize = 1 /\ N = 3 /\ data = <<1>> /\ lastDoc = 1 /\ hasMore

\* C7: the state reached when a reload's first-page fetch fails has data
\* empty, hasMore false, an error recorded and lastDoc null.
C7_ReloadFailState ==
  op = "reloadFail" =>
     /\ data = <<>> /\ ~hasMore /\ error # "null" /\ lastDoc = NoDoc

\* C8: a loadMore whose next-page fetch fails records an error, and neither
\* its call nor its failure changes data, lastDoc or hasMore.
C8_MoreFailKeeps ==
  [][/\ op' = "moreFail" =>
          /\ error' = "Failed to load more data"
          /\ UNCHANGED <<data, lastDoc, hasMore>>
     /\ (op' = "loadMore" /\ nextReq' = nextReq + 1) =>
          UNCHANGED <<data, lastDoc, hasMore>>]_vars

C8_Witness ==
  /\ op = "moreFail" /\ error = "Failed to load more data"
  /\ data = <<1, 2>> /\ lastDoc = 2 /\ hasMore /\ ~loadingMore

\* C9: whenever loading is true it is eventually false, and whenever
\* loadingMore is true it is eventually false, whether the store request
\* succeeds or fails.
C9_FlagsReleased ==
  /\ loading ~> ~loading
  /\ loadingMore ~> ~loadingMore

C9_Witness ==
  /\ op = "reloadFail" /\ ~loading /\ ~loadingMore /\ pending = {}
  /\ error = "Failed to load data"

\* C10: when a loadMore's next-page fetch succeeds with zero records, hasMore
\* becomes false and data and lastDoc are unchanged.
C10_EmptyPage ==
  [][(op' = "moreOk" /\ Cardinality(pending') < Cardinality(pending)
        /\ lastFetch'[1] = 0)
     => /\ hasMore' = FALSE
        /\ UNCHANGED <<data, lastDoc>>]_vars

C10_Witness ==
  /\ op = "moreOk" /\ lastFetch[1] = 0 /\ ~hasMore
  /\ data = store /\ N = 2 /\ lastDoc = 2

\* ==== List filter: categories.tsx 57-67, catalog.tsx 344-362 ==================
\* Strings are sequences of characters.
MaxQueryLen == 2   \* the search query has at most MaxQueryLen characters

\* the characters a query is typed from
Chars == {"a", "A", "b", " "}

Strings(n) == UNION {[1..m -> Chars] : m \in 0..n}

\* String.prototype.toLowerCase that leaves every character as it is
ToLowerCase_Identity(str) == str

\* String.prototype.toLowerCase
ToLowerCase(str) ==
  [i \in 1..Len(str) |->
     CASE str[i] = "A" -> "a"
       [] str[i] = "B" -> "b"
       [] OTHER -> str[i]]

\* String.prototype.trim
RECURSIVE Trim(_)
Trim(str) ==
  IF str = <<>> THEN str
  ELSE IF Head(str) = " " THEN Trim(Tail(str))
  ELSE IF str[Len(str)] = " " THEN Trim(SubSeq(str, 1, Len(str) - 1))
  ELSE str

\* the blank test without trim(): only the empty string is blank
IsBlank_EmptyOnly(str) == str = <<>>

\* !searchQuery.trim()
IsBlank(str) == Trim(str) = <<>>

\* String.prototype.includes
Includes(str, sub) ==
  \E i \in 0..(Len(str) - Len(sub)) : SubSeq(str, i + 1, i + Len(sub)) = sub

\* categories.filter(...) of lines 61-66
CategoryMatches(category, query) ==
  \/ Includes(ToLowerCase(category.name), query)
  \/ Includes(ToLowerCase(category.description), query)
  \/ Includes(ToLowerCase(category.id), query)

RECURSIVE Reverse(_)
Reverse(list) == IF list = <<>> THEN <<>> ELSE Append(Reverse(Tail(list)), Head(list))

\* the category filter collecting its matches in reverse order
FilterCategories_Reversed(list, search) ==
  IF IsBlank(search) THEN list
  ELSE LET query == ToLowerCase(search)
           Test(category) == CategoryMatches(category, query)
       IN  Reverse(SelectSeq(list, Test))

\* filteredCategories, categories.tsx 57-67
FilterCategories(list, search) ==
  IF IsBlank(search) THEN list
  ELSE LET query == ToLowerCase(search)
           Test(category) == CategoryMatches(category, query)
       IN  SelectSeq(list, Test)

\* categoryMap.get(product.categoryId) || "", catalog.tsx 344-347 and 358
\* (a Map built from entries keeps the last entry of a key)
CategoryName(cats, id) ==
  LET at == {i \in 1..Len(cats) : cats[i].id = id}
  IN  IF at = {} THEN <<>>
      ELSE cats[CHOOSE i \in at : \A j \in at : j <= i].name

\* products.filter(...) of catalog.tsx 353-361
ProductMatches(product, query, cats) ==
  \/ Includes(ToLowerCase(product.name), query)
  \/ Includes(ToLowerCase(product.description), query)
  \/ Includes(ToLowerCase(product.id), query)
  \/ Includes(ToLowerCase(CategoryName(cats, product.categoryId)), query)

\* ProductPage.filteredProducts, catalog.tsx 349-362
FilterProducts(list, search, cats) ==
  IF IsBlank(search) THEN list
  ELSE LET query == ToLowerCase(search)
           Test(product) == ProductMatches(product, query, cats)
       IN  SelectSeq(list, Test)

FilteredCategories == FilterCategories(categories, searchQuery)

FilteredProducts == FilterProducts(products, searchQuery, categories)

\* ---- the loaded sets the filter is exercised on -----------------------------
CategoryIds == {<<"A">>, <<"b", "b">>}
UnknownCategoryId == <<"b">>

CategoryRecords(descs) ==
  [id : CategoryIds, name : {<<"A", "b">>, <<"b", " ">>}, description : descs]

ProductRecords ==
  [id : {<<"a">>, <<"B">>},
   name : {<<"A">>, <<"b", " ">>},
   description : {<<>>, <<"a", "B">>},
   categoryId : CategoryIds \cup {UnknownCategoryId}]

\* the store assigns every record its own id
DistinctIds(list) ==
  \A i, j \in 1..Len(list) : list[i].id = list[j].id => i = j

Lists(records) ==
  {list \in UNION {[1..m -> records] : m \in 0..2} : DistinctIds(list)}

CatalogIdle == selectedCategoryId = NoCategory /\ currentPage = 1

CrudIdle ==
  /\ form = BlankForm
  /\ toDelete = NoTarget
  /\ isLoading = FALSE
  /\ handlers = {}
  /\ toasts = <<>>
  /\ nWrites = 0

\* the hook before its mount effect, over an empty collection
HookIdle == Init /\ store = <<>> /\ pageSize = 1

hookState == <<store, pageSize, data, loading, loadingMore, error, lastDoc,
               hasMore, pending, mounted, nextReq, lastFetch, k, clean>>

FilterInit ==
  /\ HookIdle /\ CatalogIdle /\ CrudIdle
  /\ searchQuery = <<>>
  /\ \/ /\ entity = "category"
        /\ categories \in Lists(CategoryRecords({<<>>, <<"a", "B">>}))
        /\ products = <<>>
     \/ /\ entity = "product"
        /\ categories \in Lists(CategoryRecords({<<>>}))
        /\ products \in Lists(ProductRecords)

\* handleSearch, categories.tsx 69-71 and catalog.tsx 366-368
HandleSearch(query) ==
  /\ searchQuery' = query
  /\ op' = "search"
  /\ UNCHANGED <<hookState, categories, products, selectedCategoryId, currentPage,
                 entity, form, toDelete, isLoading, handlers, toasts, nWrites>>

FilterNext == \E query \in Strings(MaxQueryLen) : HandleSearch(query)

FilterSpec == FilterInit /\ [][FilterNext]_allVars

\* ---- claims about the list filter -------------------------------------------
\* two characters are the same letter, whatever their case
SameLetter(c, d) ==
  \/ c = d
  \/ {c, d} = {"a", "A"}
  \/ {c, d} = {"b", "B"}

\* sub occurs in str at some offset, compared letter by letter without case
ContainsIgnoringCase(str, sub) ==
  \E i \in 0..(Len(str) - Len(sub)) :
     \A j \in 1..Len(sub) : SameLetter(str[i + j], sub[j])

\* result consists of exactly the elements of list at the positions in keep,
\* in their original relative order
IsSelection(result, list, keep) ==
  /\ Len(result) = Cardinality(keep)
  /\ \A i \in keep : result[Cardinality({j \in keep : j <= i})] = list[i]

NonBlank(str) == \E i \in 1..Len(str) : str[i] # " "

CategoryHits ==
  {i \in 1..Len(categories) :
     \/ ContainsIgnoringCase(categories[i].name, searchQuery)
     \/ ContainsIgnoringCase(categories[i].description, searchQuery)
     \/ ContainsIgnoringCase(categories[i].id, searchQuery)}

\* the name of the category a product refers to, empty when unresolved
ResolvedName(product) ==
  IF \E c \in 1..Len(categories) : categories[c].id = product.categoryId
  THEN categories[CHOOSE c \in 1..Len(categories) :
                     categories[c].id = product.categoryId].name
  ELSE <<>>

ProductHits ==
  {i \in 1..Len(products) :
     \/ ContainsIgnoringCase(products[i].name, searchQuery)
     \/ ContainsIgnoringCase(products[i].description, searchQuery)
     \/ ContainsIgnoringCase(products[i].id, searchQuery)
     \/ ContainsIgnoringCase(ResolvedName(products[i]), searchQuery)}

\* C11: for a non-blank query the filter returns exactly the loaded records, in
\* their original relative order, whose name, description or id (for products
\* also the name of the resolved category, empty when unresolved) contains the
\* query as a substring, case-insensitively.
C11_FilterSelects ==
  NonBlank(searchQuery) =>
     /\ IsSelection(FilteredCategories, categories, CategoryHits)
     /\ IsSelection(FilteredProducts, products, ProductHits)

C11_Witness ==
  /\ entity = "product" /\ searchQuery = <<"A", "b">>
  /\ Len(products) = 2 /\ FilteredProducts = <<products[2]>>
  /\ products[2].description = <<>>
  /\ ResolvedName(products[2]) = <<"A", "b">>
  /\ products[1].categoryId = UnknownCategoryId

\* C12: for an empty or whitespace-only query the filter returns the full
\* loaded set, every record present and in the original order.
C12_BlankQueryKeepsAll ==
  ~NonBlank(searchQuery) =>
     /\ FilteredCategories = categories
     /\ FilteredProducts = products

C12_Witness ==
  /\ searchQuery = <<" ", " ">>
  /\ Len(products) = 2 /\ FilteredProducts = products
  /\ \A i \in 1..2 : products[i].name = <<"A">> /\ products[i].description = <<>>

\* C13: filtering an already filtered result with the same query yields that
\* same result.
C13_FilterIdempotent ==
  /\ FilterCategories(FilteredCategories, searchQuery) = FilteredCategories
  /\ FilterProducts(FilteredProducts, searchQuery, categories) = FilteredProducts

C13_Witness ==
  /\ entity = "category" /\ searchQuery = <<"A">>
  /\ Len(categories) = 2 /\ FilteredCategories = <<categories[2]>>

\* ==== Page controller: CatalogPage, catalog.tsx 33-252 ========================
MaxProducts == 17        \* the "products" hook instance loads 0..MaxProducts records

PRODUCTS_PER_PAGE == 8   \* catalog.tsx 26

\* the loaded catalog: the first `split` of n products belong to category 1, the
\* others to category 2; or the two categories alternate
BlockProducts(n, split) ==
  [i \in 1..n |-> [id |-> i, categoryId |-> IF i <= split THEN 1 ELSE 2]]

AlternatingProducts(n) ==
  [i \in 1..n |-> [id |-> i, categoryId |-> 1 + (i % 2)]]

CatalogProductLists ==
  {BlockProducts(n, split) : n \in 0..MaxProducts, split \in 0..MaxProducts}
    \cup {AlternatingProducts(n) : n \in 0..MaxProducts}

CatalogCategoryLists == {<<>>, <<[id |-> 1], [id |-> 2]>>, <<[id |-> 2], [id |-> 1]>>}

\* filteredProducts of CatalogPage, lines 64-69
CatalogFilter(list, selected) ==
  IF selected = NoCategory THEN <<>>
  ELSE LET Test(product) == product.categoryId = selected
       IN  SelectSeq(list, Test)

\* Math.floor in place of Math.ceil
TotalPagesOf_Floor(count) == count \div PRODUCTS_PER_PAGE

\* totalPages, lines 74-76: Math.ceil(filteredProducts.length / PRODUCTS_PER_PAGE)
TotalPagesOf(count) == (count + PRODUCTS_PER_PAGE - 1) \div PRODUCTS_PER_PAGE

\* Array.prototype.slice(start, end) for 0 <= start <= end
Slice(list, start, end) ==
  SubSeq(list, Min(start, Len(list)) + 1, Min(end, Len(list)))

\* the page slice taking currentPage as a 0-based page number
PageSlice_ZeroBased(list, page) ==
  LET startIndex == page * PRODUCTS_PER_PAGE
      endIndex == startIndex + PRODUCTS_PER_PAGE
  IN  Slice(list, startIndex, endIndex)

\* paginatedProducts, lines 79-83
PageSlice(list, page) ==
  LET startIndex == (page - 1) * PRODUCTS_PER_PAGE
      endIndex == startIndex + PRODUCTS_PER_PAGE
  IN  Slice(list, startIndex, endIndex)

CatalogFiltered == CatalogFilter(products, selectedCategoryId)

TotalPages == TotalPagesOf(Len(CatalogFiltered))

PaginatedProducts == PageSlice(CatalogFiltered, currentPage)

\* the effect of lines 56-60: the first loaded category becomes the default
DefaultCategory(cats, selected) ==
  IF selected = NoCategory /\ Len(cats) > 0 THEN cats[1].id ELSE selected

CatalogInit ==
  /\ HookIdle /\ CrudIdle
  /\ entity = "catalog"
  /\ searchQuery = <<>>
  /\ categories = <<>>
  /\ products = <<>>
  /\ selectedCategoryId = NoCategory
  /\ currentPage = 1

catalogFrame == <<hookState, searchQuery, entity, form, toDelete, isLoading,
                  handlers, toasts, nWrites>>

\* the "categories" hook instance delivers its page (line 36), then the
\* default-category effect runs
CategoriesLoaded(list) ==
  /\ categories = <<>>
  /\ categories' = list
  /\ selectedCategoryId' = DefaultCategory(list, selectedCategoryId)
  /\ op' = "categoriesLoaded"
  /\ UNCHANGED <<catalogFrame, products, currentPage>>

\* the "products" hook instance delivers its page (line 41)
ProductsLoaded(list) ==
  /\ products = <<>>
  /\ products' = list
  /\ op' = "productsLoaded"
  /\ UNCHANGED <<catalogFrame, categories, selectedCategoryId, currentPage>>

\* the category button that leaves the page where it is
SelectCategory_KeepPage(cat) ==
  /\ \E i \in 1..Len(categories) : categories[i].id = cat
  /\ selectedCategoryId' = cat
  /\ op' = "selectCategory"
  /\ UNCHANGED <<catalogFrame, categories, products, currentPage>>

\* onClick of a category button, lines 120-123
SelectCategory(cat) ==
  /\ \E i \in 1..Len(categories) : categories[i].id = cat
  /\ selectedCategoryId' = cat
  /\ currentPage' = 1
  /\ op' = "selectCategory"
  /\ UNCHANGED <<catalogFrame, categories, products>>

\* handleNextPage without Math.min
HandleNextPage_NoClamp ==
  /\ TotalPages > 1
  /\ currentPage' = currentPage + 1
  /\ op' = "nextPage"
  /\ UNCHANGED <<catalogFrame, categories, products, selectedCategoryId>>

\* handleNextPage, lines 86-88; the page bar is rendered only when
\* totalPages > 1 (line 224).  The handler is taken as callable whenever the
\* bar is rendered, also where the button is disabled (line 241).
HandleNextPage ==
  /\ TotalPages > 1
  /\ currentPage' = Min(currentPage + 1, TotalPages)
  /\ op' = "nextPage"
  /\ UNCHANGED <<catalogFrame, categories, products, selectedCategoryId>>

\* handlePrevPage, lines 90-92, callable whenever the bar is rendered
HandlePrevPage ==
  /\ TotalPages > 1
  /\ currentPage' = Max(currentPage - 1, 1)
  /\ op' = "prevPage"
  /\ UNCHANGED <<catalogFrame, categories, products, selectedCategoryId>>

CatalogNext ==
  \/ \E list \in CatalogCategoryLists : CategoriesLoaded(list)
  \/ \E list \in CatalogProductLists : ProductsLoaded(list)
  \/ \E cat \in {1, 2} : SelectCategory(cat)
  \/ HandleNextPage
  \/ HandlePrevPage

CatalogSpec == CatalogInit /\ [][CatalogNext]_allVars

\* ---- claims about the page controller ---------------------------------------
RECURSIVE ConcatPages(_, _, _)
\* the page slices for currentPage = from..to, one after the other
ConcatPages(list, from, to) ==
  IF from > to THEN <<>>
  ELSE PageSlice(list, from) \o ConcatPages(list, from + 1, to)

\* t is the least number of pages of PRODUCTS_PER_PAGE records that hold count
IsCeiling(t, count) ==
  /\ t >= 0
  /\ t * PRODUCTS_PER_PAGE >= count
  /\ (t - 1) * PRODUCTS_PER_PAGE < count

\* C14: with totalPages = ceil(n / pageSize) (0 when n = 0), the page slices
\* for currentPage = 1..totalPages, concatenated in order, are the filtered set.
C14_PagesRoundTrip ==
  /\ IsCeiling(TotalPages, Len(CatalogFiltered))
  /\ (Len(CatalogFiltered) = 0 => TotalPages = 0)
  /\ ConcatPages(CatalogFiltered, 1, TotalPages) = CatalogFiltered

C14_Witness ==
  /\ Len(products) = 17 /\ Len(CatalogFiltered) = 9 /\ TotalPages = 2
  /\ \E i \in 1..16 : products[i].categoryId # products[i + 1].categoryId

\* the indices (0-based) of the filtered set that page number `page` shows
PageIndices(page, count) ==
  {i \in ((page - 1) * PRODUCTS_PER_PAGE)..(page * PRODUCTS_PER_PAGE - 1) : i < count}

\* shown holds the records of the filtered set at PageIndices(page, ...), in order
IsPageOf(shown, page) ==
  /\ Len(shown) = Cardinality(PageIndices(page, Len(CatalogFiltered)))
  /\ \A j \in 1..Len(shown) :
        shown[j] = CatalogFiltered[(page - 1) * PRODUCTS_PER_PAGE + j]

\* C15: the page shown for a 1-based page number is the contiguous slice of the
\* filtered set from index (page-1)*pageSize up to, not including,
\* page*pageSize, clamped to the filtered set: the last page may be shorter and
\* a page beyond the end is empty.
C15_PageIsSlice ==
  /\ IsPageOf(PaginatedProducts, currentPage)
  /\ \A page \in 1..(TotalPages + 1) :
        IsPageOf(PageSlice(CatalogFiltered, page), page)

C15_Witness ==
  /\ Len(CatalogFiltered) = 17 /\ currentPage = 3
  /\ PaginatedProducts = <<CatalogFiltered[17]>>

InRange == currentPage \in 1..TotalPages

\* C16: whenever there is a page to show, currentPage lies in 1..totalPages,
\* and so it does after every next-page and previous-page action; next-page at
\* currentPage = totalPages and previous-page at currentPage = 1 leave
\* currentPage unchanged.
C16_PageInRange ==
  /\ [](TotalPages >= 1 => InRange)
  /\ [][/\ op' = "nextPage" =>
             /\ InRange'
             /\ (currentPage = TotalPages => currentPage' = currentPage)
        /\ op' = "prevPage" =>
             /\ InRange'
             /\ (currentPage = 1 => currentPage' = currentPage)]_allVars

C16_Witness ==
  /\ op = "nextPage" /\ TotalPages = 3 /\ currentPage = 3

\* C17: selecting a category sets currentPage to 1, whatever page was shown.
C17_SelectResetsPage ==
  [][op' = "selectCategory" => currentPage' = 1]_allVars

C17_Witness ==
  /\ op = "selectCategory" /\ currentPage = 1 /\ selectedCategoryId = 2
  /\ TotalPages = 1 /\ Len(products) = 17

\* ==== CRUD handlers of CategoryPage (categories.tsx 73-136) and ProductPage ===
\* ==== (catalog.tsx 403-477), each owning one hook instance ===================
MaxWrites == 1     \* store writes issued in one behaviour

FormNames == {<<" ">>, <<"A">>}

\* the edit validation without its test of the id
EditInvalid_NoIdCheck(page, f) ==
  \/ IsBlank(f.name)
  \/ page = "product" /\ f.categoryId = NoCategory

\* categories.tsx 75 / catalog.tsx 405: the early return of the add handlers
AddInvalid(page, f) ==
  \/ IsBlank(f.name)
  \/ page = "product" /\ f.categoryId = NoCategory

\* categories.tsx 97 / catalog.tsx 430-435: the early return of the edit handlers
EditInvalid(page, f) ==
  \/ IsBlank(f.name)
  \/ f.id = NoTarget
  \/ page = "product" /\ f.categoryId = NoCategory

\* handler invocations whose write has been issued and not yet answered
Writing == {h \in handlers : h.stage \in {"write", "committed"}}

\* room for one more write, and for the reload that follows it
CanWrite ==
  /\ nWrites < MaxWrites
  /\ nextReq + Cardinality(Writing) < MaxReq

\* addDoc assigns the new document an id of its own
NewId(h) == MaxN + h.id

Insert(list, pos, x) == SubSeq(list, 1, pos) \o <<x>> \o SubSeq(list, pos + 1, Len(list))

Remove(list, x) == LET Test(y) == y # x IN SelectSeq(list, Test)

Elements(list) == {list[i] : i \in 1..Len(list)}

\* the record whose edit and delete buttons are exercised: the first one listed
Listed == IF data = <<>> THEN {} ELSE {data[1]}

crudHook == <<hookState, op>>

filterCatalogVars == <<categories, products, searchQuery, selectedCategoryId, currentPage>>

\* the pages ask for pages of 1000 records (categories.tsx 36, catalog.tsx
\* 311); the largest page size of the model stands for it
CrudInit ==
  /\ Init /\ CrudIdle /\ CatalogIdle
  /\ pageSize = MaxPageSize
  /\ categories = <<>> /\ products = <<>> /\ searchQuery = <<>>
  /\ entity \in {"category", "product"}

\* ---- the form and the delete dialog -----------------------------------------
\* handleAddClick -> resetForm
HandleAddClick ==
  /\ mounted
  /\ form' = BlankForm
  /\ op' = "ui"
  /\ UNCHANGED <<hookState, filterCatalogVars, entity, toDelete, isLoading,
                 handlers, toasts, nWrites>>

\* handleEditClick(record) on a listed record
HandleEditClick(rec) ==
  /\ mounted
  /\ rec \in Listed
  /\ form' = [id |-> rec, name |-> <<"A">>,
              categoryId |-> IF entity = "product" THEN 1 ELSE NoCategory,
              price |-> IF entity = "product" THEN 5 ELSE 0]
  /\ op' = "ui"
  /\ UNCHANGED <<hookState, filterCatalogVars, entity, toDelete, isLoading,
                 handlers, toasts, nWrites>>

\* onChange of the name input
InputName(name) ==
  /\ mounted
  /\ form' = [form EXCEPT !.name = name]
  /\ op' = "ui"
  /\ UNCHANGED <<hookState, filterCatalogVars, entity, toDelete, isLoading,
                 handlers, toasts, nWrites>>

\* onChange of the category select (ProductPage)
InputCategory(cat) ==
  /\ mounted /\ entity = "product"
  /\ form' = [form EXCEPT !.categoryId = cat]
  /\ op' = "ui"
  /\ UNCHANGED <<hookState, filterCatalogVars, entity, toDelete, isLoading,
                 handlers, toasts, nWrites>>

\* Number.parseFloat of the text of the price input: NaN for the empty text
NaN == -1

PriceTexts == {<<>>, <<"5">>}

ParseFloat(text) == IF text = <<"5">> THEN 5 ELSE NaN

\* x || 0
OrZero(x) == IF x = NaN \/ x = 0 THEN 0 ELSE x

\* onChange of the price input (ProductPage): an emptied input leaves 0
InputPrice(text) ==
  /\ mounted /\ entity = "product"
  /\ form' = [form EXCEPT !.price = OrZero(ParseFloat(text))]
  /\ op' = "ui"
  /\ UNCHANGED <<hookState, filterCatalogVars, entity, toDelete, isLoading,
                 handlers, toasts, nWrites>>

\* handleDeleteClick(record) on a listed record
HandleDeleteClick(rec) ==
  /\ mounted
  /\ rec \in Listed
  /\ toDelete' = rec
  /\ op' = "ui"
  /\ UNCHANGED <<hookState, filterCatalogVars, entity, form, isLoading,
                 handlers, toasts, nWrites>>

\* handleDeleteCancel
HandleDeleteCancel ==
  /\ mounted
  /\ toDelete' = NoTarget
  /\ op' = "ui"
  /\ UNCHANGED <<hookState, filterCatalogVars, entity, form, isLoading,
                 handlers, toasts, nWrites>>

\* ---- the handlers up to their first await -----------------------------------
\* the handler issues its write: setIsLoading(true) for add and edit, then
\* await addDoc / updateDoc / deleteDoc
IssueWrite(kind, target) ==
  /\ CanWrite
  /\ handlers' = handlers \cup
        {[id |-> nWrites + 1, kind |-> kind, target |-> target,
          stage |-> "write", req |-> 0]}
  /\ nWrites' = nWrites + 1
  /\ isLoading' = IF kind = "delete" THEN isLoading ELSE TRUE

\* handleAddCategory / handleAddProduct, taken as callable whatever the form
\* holds (the submit button's disabled attribute is not relied on)
HandleAdd ==
  /\ mounted
  /\ op' = "add"
  /\ IF AddInvalid(entity, form)
     THEN UNCHANGED <<handlers, nWrites, isLoading>>
     ELSE /\ Len(store) + Cardinality({h \in Writing : h.kind = "add"}) < MaxN
          /\ IssueWrite("add", NoTarget)
  /\ UNCHANGED <<hookState, filterCatalogVars, entity, form, toDelete, toasts>>

\* handleEditCategory / handleEditProduct, callable whatever the form holds
HandleEdit ==
  /\ mounted
  /\ op' = "edit"
  /\ IF EditInvalid(entity, form)
     THEN UNCHANGED <<handlers, nWrites, isLoading>>
     ELSE IssueWrite("update", form.id)
  /\ UNCHANGED <<hookState, filterCatalogVars, entity, form, toDelete, toasts>>

\* handleDeleteConfirm
HandleDeleteConfirm ==
  /\ mounted
  /\ op' = "deleteConfirm"
  /\ IF toDelete = NoTarget
     THEN UNCHANGED <<handlers, nWrites, isLoading>>
     ELSE IssueWrite("delete", toDelete)
  /\ UNCHANGED <<hookState, filterCatalogVars, entity, form, toDelete, toasts>>

\* ---- the store applies a write ----------------------------------------------
WriteCommit(h) ==
  /\ h \in handlers /\ h.stage = "write"
  /\ CASE h.kind = "add" ->
            \E pos \in {0, Len(store)} : store' = Insert(store, pos, NewId(h))
       [] h.kind = "update" ->
            h.target \in Elements(store) /\ store' = store
       [] h.kind = "delete" ->
            store' = Remove(store, h.target)
  /\ handlers' = (handlers \ {h}) \cup {[h EXCEPT !.stage = "committed"]}
  /\ op' = "commit"
  /\ UNCHANGED <<pageSize, data, loading, loadingMore, error, lastDoc, hasMore,
                 pending, mounted, nextReq, lastFetch, k, clean>>
  /\ UNCHANGED <<filterCatalogVars, entity, form, toDelete, isLoading, toasts, nWrites>>

\* ---- the handlers after their write settled ---------------------------------
\* the try-branch without its `await refetch()`
WriteSuccess_NoRefetch(h) ==
  /\ h \in handlers /\ h.stage = "committed"
  /\ form' = IF h.kind = "delete" THEN form ELSE BlankForm
  /\ toasts' = Append(toasts, "success")
  /\ handlers' = handlers \ {h}
  /\ isLoading' = IF h.kind = "delete" THEN isLoading ELSE FALSE
  /\ toDelete' = IF h.kind = "delete" THEN NoTarget ELSE toDelete
  /\ op' = "writeOk"
  /\ UNCHANGED <<hookState, filterCatalogVars, entity, nWrites>>

\* the try-branch up to `await refetch()`: resetForm, toast.success and the
\* synchronous part of reload
WriteSuccess(h) ==
  /\ h \in handlers /\ h.stage = "committed"
  /\ form' = IF h.kind = "delete" THEN form ELSE BlankForm
  /\ toasts' = Append(toasts, "success")
  /\ handlers' = (handlers \ {h}) \cup
        {[h EXCEPT !.stage = "refetch", !.req = nextReq + 1]}
  /\ loading' = TRUE
  /\ error' = "null"
  /\ hasMore' = TRUE
  /\ lastDoc' = NoDoc
  /\ pending' = pending \cup
        {[id |-> nextReq + 1, kind |-> "first", after |-> NoDoc, size |-> pageSize]}
  /\ nextReq' = nextReq + 1
  /\ k' = 0
  /\ clean' = (pending = {})
  /\ op' = "writeOk"
  /\ UNCHANGED <<store, pageSize, data, loadingMore, mounted, lastFetch>>
  /\ UNCHANGED <<filterCatalogVars, entity, toDelete, isLoading, nWrites>>

\* the catch-branch retrying through a reload
WriteFail_Refetch(h) ==
  /\ h \in handlers /\ h.stage = "write"
  /\ toasts' = IF h.kind = "delete" THEN Append(toasts, "error") ELSE toasts
  /\ handlers' = (handlers \ {h}) \cup
        {[h EXCEPT !.stage = "refetch", !.req = nextReq + 1]}
  /\ loading' = TRUE
  /\ error' = "null"
  /\ hasMore' = TRUE
  /\ lastDoc' = NoDoc
  /\ pending' = pending \cup
        {[id |-> nextReq + 1, kind |-> "first", after |-> NoDoc, size |-> pageSize]}
  /\ nextReq' = nextReq + 1
  /\ k' = 0
  /\ clean' = (pending = {})
  /\ op' = "writeFail"
  /\ UNCHANGED <<store, pageSize, data, loadingMore, mounted, lastFetch>>
  /\ UNCHANGED <<filterCatalogVars, entity, form, toDelete, isLoading, nWrites>>

\* the write is rejected: catch-branch (console.error; toast.error for delete
\* only), then finally
WriteFail(h) ==
  /\ h \in handlers /\ h.stage = "write"
  /\ toasts' = IF h.kind = "delete" THEN Append(toasts, "error") ELSE toasts
  /\ handlers' = handlers \ {h}
  /\ isLoading' = IF h.kind = "delete" THEN isLoading ELSE FALSE
  /\ toDelete' = IF h.kind = "delete" THEN NoTarget ELSE toDelete
  /\ op' = "writeFail"
  /\ UNCHANGED <<hookState, filterCatalogVars, entity, form, nWrites>>

\* the finally block of the handler that awaited reload r
Finally(r) ==
  LET done == {h \in handlers : h.stage = "refetch" /\ h.req = r.id}
  IN  /\ handlers' = handlers \ done
      /\ isLoading' = IF \E h \in done : h.kind # "delete" THEN FALSE ELSE isLoading
      /\ toDelete' = IF \E h \in done : h.kind = "delete" THEN NoTarget ELSE toDelete
      /\ UNCHANGED <<filterCatalogVars, entity, form, toasts, nWrites>>

CrudMount == MountEffect /\ UNCHANGED pageVars

CrudReloadSuccess(r) == ReloadSuccess(r) /\ Finally(r)

CrudReloadFail(r) == ReloadFail(r) /\ Finally(r)

CrudNext ==
  \/ CrudMount
  \/ \E r \in pending : CrudReloadSuccess(r)
  \/ \E r \in pending : CrudReloadFail(r)
  \/ HandleAddClick
  \/ \E rec \in Listed : HandleEditClick(rec)
  \/ \E name \in FormNames : InputName(name)
  \/ InputCategory(1)
  \/ \E text \in PriceTexts : InputPrice(text)
  \/ \E rec \in Listed : HandleDeleteClick(rec)
  \/ HandleDeleteCancel
  \/ HandleAdd
  \/ HandleEdit
  \/ HandleDeleteConfirm
  \/ \E h \in handlers : WriteCommit(h)
  \/ \E h \in handlers : WriteSuccess(h)
  \/ \E h \in handlers : WriteFail(h)

CrudSpec == CrudInit /\ [][CrudNext]_allVars

\* ---- claims about the CRUD handlers -----------------------------------------
cursorState == <<data, lastDoc, hasMore, error>>

InvalidFields ==
  \/ ~NonBlank(form.name)
  \/ entity = "product" /\ form.categoryId = NoCategory

Rejected ==
  \/ op' = "add" /\ InvalidFields
  \/ op' = "edit" /\ (InvalidFields \/ form.id = NoTarget)

\* C18: a create or update submitted with invalid fields (blank name; for a
\* product also no selected category; for an update also no resolved id) issues
\* no store write, invokes no reload and leaves items as they were.
C18_InvalidRejected ==
  [][Rejected =>
       /\ nWrites' = nWrites /\ handlers' = handlers /\ store' = store
       /\ nextReq' = nextReq /\ pending' = pending
       /\ data' = data]_allVars

C18_Witness ==
  /\ op = "edit" /\ form.id = NoTarget
  /\ NonBlank(form.name) /\ entity = "product" /\ form.categoryId # NoCategory
  /\ nWrites = 0 /\ handlers = {} /\ data # <<>>

MutationStep == op' \in {"add", "edit", "deleteConfirm", "commit", "writeOk", "writeFail"}

ReloadInvoked ==
  /\ nextReq' = nextReq + 1
  /\ \E r \in pending' \ pending :
       r.id = nextReq' /\ r.kind = "first" /\ r.after = NoDoc
  /\ loading'

\* C19: the continuation of every create, update or delete whose store write
\* succeeded invokes reload, a fetch of the first page; no step of a mutation
\* changes items itself.
C19_WriteThenReload ==
  [][/\ op' = "writeOk" => ReloadInvoked
     /\ MutationStep => data' = data]_allVars

C19_Witness ==
  /\ op = "writeOk" /\ loading
  /\ \E h \in handlers :
       /\ h.kind = "add" /\ h.stage = "refetch"
       /\ \E r \in pending : r.id = h.req /\ r.kind = "first"
       /\ NewId(h) \in Elements(store)
       /\ NewId(h) \notin Elements(data)
  /\ data # <<>>

\* C20: when the store write of a create, update or delete fails, the handler
\* issues no further write and invokes no reload, and items, cursor, hasMore
\* and error are what they were; the step that issued the write left them
\* alone as well.
C20_FailedWriteKeeps ==
  [][/\ op' = "writeFail" =>
          /\ nWrites' = nWrites /\ Writing' \subseteq Writing /\ store' = store
          /\ nextReq' = nextReq /\ pending' = pending /\ loading' = loading
          /\ cursorState' = cursorState
     /\ op' \in {"add", "edit", "deleteConfirm"} =>
          /\ nextReq' = nextReq /\ pending' = pending
          /\ cursorState' = cursorState]_allVars

C20_Witness ==
  /\ op = "writeFail" /\ nWrites = 1 /\ handlers = {} /\ pending = {}
  /\ data # <<>> /\ hasMore /\ lastDoc # NoDoc /\ error = "null"

\* ==== further claims about the hook alone (specification Spec) ===============
NoDuplicates(list) == \A i, j \in 1..Len(list) : list[i] = list[j] => i = j

IsPrefix(list, of) == Len(list) <= Len(of) /\ list = SubSeq(of, 1, Len(list))

\* C21: under any interleaving of reload and loadMore calls with the store's
\* responses, against an unchanging store, data never holds a record twice
\* and is always a gap-free prefix of the store's order.
C21_PrefixNoDuplicates ==
  NoDuplicates(data) /\ IsPrefix(data, store)

FirstPagePending == \E r \in pending : r.kind = "first"

\* C22: reload empties data before it issues its store request, so while a
\* first-page fetch is pending data holds no record from before the reload.
C22_ReloadResetsFirst ==
  FirstPagePending => data = <<>>

\* C23: between one reload call and the next, the length of data never
\* decreases from one state to the next.
C23_LengthMonotone ==
  [][Len(data') >= Len(data)]_vars

\* C28: in every reachable state, under any interleaving of reload and
\* loadMore calls and responses, if lastDoc is set then data is non-empty and
\* lastDoc is the last record of data.
C28_CursorIsLastRecord ==
  lastDoc # NoDoc => (data # <<>> /\ lastDoc = data[Len(data)])

C30_LoadingWhilePending ==
  FirstPagePending => loading

\* ==== a change of the hook's configuration ===================================
\* options.pageSize is a dependency of reload (line 96), and reload of the
\* mount effect (line 142): a render with another page size re-creates reload
\* and the effect calls it.  Nothing cancels the fetches issued before.
ConfigInit == Init /\ PageIdle

\* a render with page size p, followed by the effect's reload()
ConfigChange(p) ==
  /\ mounted
  /\ p # pageSize
  /\ nextReq < MaxReq
  /\ pageSize' = p
  /\ loading' = TRUE
  /\ error' = "null"
  /\ hasMore' = TRUE
  /\ lastDoc' = NoDoc
  /\ pending' = pending \cup
        {[id |-> nextReq + 1, kind |-> "first", after |-> NoDoc, size |-> p]}
  /\ nextReq' = nextReq + 1
  /\ op' = "configChange"
  /\ k' = 0
  /\ clean' = (pending = {})
  /\ UNCHANGED <<store, data, loadingMore, mounted, lastFetch>>

ConfigStep ==
  \/ MountEffect
  \/ \E p \in 1..MaxPageSize : ConfigChange(p)
  \/ LoadMore
  \/ \E r \in pending : ReloadSuccess(r)
  \/ \E r \in pending : ReloadFail(r)
  \/ \E r \in pending : LoadMoreSuccess(r)
  \/ \E r \in pending : LoadMoreFail(r)

ConfigNext == ConfigStep /\ UNCHANGED pageVars

ConfigSpec == ConfigInit /\ [][ConfigNext]_allVars

\* the configuration has changed and nothing was called since its reload
AfterConfigChange == nextReq >= 2 /\ k = 0

\* C24: a change of the page size issues a first-page fetch with the new page
\* size; and once every pending fetch has settled, without a failure, data
\* is the first page fetched under the new page size and nothing else.
C24_ConfigChangeReloads ==
  /\ [][op' = "configChange" =>
          \E r \in pending' \ pending :
             r.id = nextReq' /\ r.kind = "first" /\ r.size = pageSize']_allVars
  /\ []((AfterConfigChange /\ pending = {} /\ error = "null")
          => data = SubSeq(store, 1, Min(N, pageSize)))

\* ==== further claims about the CRUD handlers (specification CrudSpec) ========
\* the price the form holds when the price input was emptied or never filled
EmptyPrice == form.price = 0

\* C25: a product create or update whose price is empty issues no store write.
C25_EmptyPriceRejected ==
  [][(op' \in {"add", "edit"} /\ entity = "product" /\ EmptyPrice)
       => nWrites' = nWrites /\ handlers' = handlers]_allVars

ErrorRaised == toasts' = Append(toasts, "error")

\* C26: whenever the store write of a create, update or delete fails, and
\* whenever a submission is rejected by the local validation, an error
\* notification is raised by that step.
C26_ErrorNotified ==
  [][(op' = "writeFail" \/ Rejected) => ErrorRaised]_allVars

\* ==== overlapping reloads against a store that changes ========================
\* getDocs reads the collection when the store serves the request; the
\* response then travels back and the continuation of reload (lines 82-87)
\* runs when it arrives.  The store may change in between, and responses may
\* arrive in any order.
RaceInit == Init /\ PageIdle

\* the record whose deletion is exercised: the first one of the collection
FirstOf(list) == IF list = <<>> THEN {} ELSE {list[1]}

\* a deleteDoc (handleDeleteConfirm, categories.tsx 126) commits in the store
StoreDelete(rec) ==
  /\ mounted
  /\ rec \in FirstOf(store)
  /\ store' = Remove(store, rec)
  /\ op' = "commit"
  /\ UNCHANGED <<pageSize, data, loading, loadingMore, error, lastDoc, hasMore,
                 pending, mounted, nextReq, lastFetch, k, clean>>

\* the store serves a first-page request: the page is read now
Serve(r) ==
  /\ r \in pending /\ r.kind = "first"
  /\ pending' = (pending \ {r}) \cup
        {[id |-> r.id, kind |-> "served", after |-> r.after, size |-> r.size,
          page |-> FetchPage(store, r.after, r.size)]}
  /\ op' = "serve"
  /\ UNCHANGED <<store, pageSize, data, loading, loadingMore, error, lastDoc,
                 hasMore, mounted, nextReq, lastFetch, k, clean>>

\* the response arrives: try-branch of reload after the await, then finally
ReloadArrives(r) ==
  /\ r \in pending /\ r.kind = "served"
  /\ data' = r.page
  /\ lastDoc' = LastVisibleDoc(r.page)
  /\ hasMore' = FullPage(r.page, r.size)
  /\ lastFetch' = <<Len(r.page), r.size>>
  /\ loading' = FALSE
  /\ pending' = pending \ {r}
  /\ op' = "reloadOk"
  /\ UNCHANGED <<store, pageSize, loadingMore, error, mounted, nextReq, k, clean>>

RaceStep ==
  \/ MountEffect
  \/ Reload
  \/ \E rec \in FirstOf(store) : StoreDelete(rec)
  \/ \E r \in pending : Serve(r)
  \/ \E r \in pending : ReloadArrives(r)

RaceNext == RaceStep /\ UNCHANGED pageVars

RaceSpec == RaceInit /\ [][RaceNext]_allVars

\* the response that arrives in this step answers a reload that is not the
\* most recently issued one, whose own response has arrived already
StaleArrival ==
  /\ op' = "reloadOk"
  /\ \E r \in pending \ pending' : r.id < nextReq
  /\ \A q \in pending : q.id # nextReq

\* C27: when reloads overlap, a response to an earlier reload that arrives
\* after the response to the most recently issued reload leaves data alone:
\* with every response in, whatever the order of arrival, data is the page
\* returned to the most recently issued reload.
C27_LastIssuedWins ==
  [][StaleArrival => data' = data]_allVars

====
